---------------------------- MODULE Spec2Model ----------------------------
(***************************************************************************)
(* A model of src/src/lib.rs: the dense polynomial VecPoly<T>, its Horner  *)
(* evaluation, its truncating pointwise + and -, and the one-sample        *)
(* Schwartz-Zippel zero test that == is built on.                          *)
(*                                                                         *)
(* The coefficient type T is generic in the source and bounded by          *)
(* AbstractField + Bounded + SampleUniform.  Here T is the integers with   *)
(* exact arithmetic (the field laws the trait bound promises), with        *)
(* symmetric bounds min_value = -max_value as f32 and f64 have them.       *)
(* Rounding, infinities and NaN of a concrete float type are outside the   *)
(* model.  The random generator is a nondeterministic choice of one point  *)
(* of the range handed to gen_range.                                       *)
(***************************************************************************)
EXTENDS Integers, Sequences, FiniteSets, TLC

\* ------------------------------------------------------------------ bounds

\* Longest coefficient vector drawn for an operand.
MaxLen == 2

\* Operand coefficients are drawn from -MaxCoef..MaxCoef.
MaxCoef == 1

\* evaluate is called on the points -MaxPoint..MaxPoint.
MaxPoint == 2

\* Half of T's largest value: max_value is 2 * HalfMax, so that halving the
\* bounds is exact, as it is for floats.
HalfMax == 2

\* ------------------------------------------------- the coefficient type T

\* <T as Zero>::zero()
T_zero == 0

\* T::id(Multiplicative)
T_one == 1

\* <T as Bounded>::max_value()
max_value == 2 * HalfMax

\* <T as Bounded>::min_value()
min_value == -max_value

\* <T as Zero>::is_zero
T_is_zero(v) == v = T_zero

Abs(n) == IF n < 0 THEN -n ELSE n

\* <T as Div>::div, the field quotient: the q with q * d = n.
T_div(n, d) == CHOOSE q \in -Abs(n)..Abs(n) : q * d = n

\* Rng::gen_range(low, high): the points of the closed-open range [low, high).
gen_range_closed(low, high) == low..high

gen_range(low, high) == low..(high - 1)

\* ---------------------------------------------------------------- VecPoly

\* struct VecPoly<T> { coefficients: Vec<T> }
VecPoly(c) == [coefficients |-> c]

\* Option<T>
Some(v) == [some |-> TRUE, val |-> v]

None == [some |-> FALSE, val |-> T_zero]

Min(m, n) == IF m < n THEN m ELSE n

Max(m, n) == IF m < n THEN n ELSE m

\* VecPoly::order
order_minus_one(self) == Len(self.coefficients) - 1

order(self) == Len(self.coefficients)

\* The loop of VecPoly::evaluate: for coef in coefs.skip(k) { accumulated =
\* accumulated * element + *coef }, entered with the iterator at index i.
RECURSIVE horner_loop(_, _, _, _)
horner_loop(coefs, i, accumulated, element) ==
    IF i > Len(coefs)
    THEN accumulated
    ELSE horner_loop(coefs, i + 1, accumulated * element + coefs[i], element)

\* VecPoly::evaluate with the skip(1) forgotten.
evaluate_noskip(self, element) ==
    IF Len(self.coefficients) > 0
    THEN Some(horner_loop(self.coefficients, 1, self.coefficients[1], element))
    ELSE None

\* VecPoly::evaluate answering the additive identity for no coefficients.
evaluate_default(self, element) ==
    IF Len(self.coefficients) > 0
    THEN Some(horner_loop(self.coefficients, 2, self.coefficients[1], element))
    ELSE Some(T_zero)

\* VecPoly::evaluate
evaluate(self, element) ==
    IF Len(self.coefficients) > 0
    THEN Some(horner_loop(self.coefficients, 2, self.coefficients[1], element))
    ELSE None

\* #[derive(Clone)]
clone(self) == VecPoly(self.coefficients)

\* Element i of a vector read as zero-padded.
Padded(c, i) == IF i <= Len(c) THEN c[i] ELSE T_zero

\* An addition that pads the shorter operand.
add_padded(self, other) ==
    VecPoly([i \in 1..Max(Len(self.coefficients), Len(other.coefficients)) |->
                Padded(self.coefficients, i) + Padded(other.coefficients, i)])

\* VecPoly::add: iter().zip(iter()).map(|(a,b)| *a+*b).collect()
add(self, other) ==
    VecPoly([i \in 1..Min(Len(self.coefficients), Len(other.coefficients)) |->
                self.coefficients[i] + other.coefficients[i]])

\* A subtraction that pads the shorter operand.
sub_padded(self, other) ==
    VecPoly([i \in 1..Max(Len(self.coefficients), Len(other.coefficients)) |->
                Padded(self.coefficients, i) - Padded(other.coefficients, i)])

\* A subtraction that adds.
sub_adds(self, other) ==
    VecPoly([i \in 1..Min(Len(self.coefficients), Len(other.coefficients)) |->
                self.coefficients[i] + other.coefficients[i]])

\* VecPoly::sub: iter().zip(iter()).map(|(a,b)| *a-*b).collect()
sub(self, other) ==
    VecPoly([i \in 1..Min(Len(self.coefficients), Len(other.coefficients)) |->
                self.coefficients[i] - other.coefficients[i]])

\* The bounds of the sampling range of VecPoly::is_zero.
min_of_range == T_div(min_value, T_one + T_one)

max_of_range == T_div(max_value, T_one + T_one)

\* VecPoly::is_zero reporting nonzero when evaluate yields nothing.
is_zero_none_false(self, rand_point) ==
    LET eval_result == evaluate(self, rand_point)
    IN  IF eval_result.some THEN T_is_zero(eval_result.val) ELSE FALSE

\* VecPoly::is_zero, from the draw of rand_point on.
is_zero(self, rand_point) ==
    LET eval_result == evaluate(self, rand_point)
    IN  IF eval_result.some THEN T_is_zero(eval_result.val) ELSE TRUE

\* A zero() holding one additive identity.
zero_one_term == VecPoly(<<T_zero>>)

\* VecPoly::zero
zero == VecPoly(<< >>)

\* PartialEq::eq; rand_point is the point its is_zero call draws.
eq(self, other, rand_point) ==
    LET self_clone == clone(self)
        other_clone == clone(other)
        sub_result == sub(self_clone, other_clone)
    IN  is_zero(sub_result, rand_point)

\* ------------------------------------------------------------- the inputs

Coef == (-MaxCoef)..MaxCoef

Points == (-MaxPoint)..MaxPoint

\* The coefficient vectors the tests and the documentation name.
Examples ==
    { <<1, 0, 1>>, <<0, 0, 0>>, <<0, 1>>, <<1, 2>>, <<3, 4>>, <<5, 5>>,
      <<2, 3>>, <<1>>, <<2>> }

Vecs == UNION { [1..n -> Coef] : n \in 0..MaxLen } \cup Examples

Polys == { VecPoly(c) : c \in Vecs }

\* ------------------------------------------------------------- the state

VARIABLES
    a,       \* the polynomial the methods are called on
    b,       \* the right operand of +, - and ==
    op,      \* the call that has returned, "idle" between calls
    point,   \* the element passed to evaluate, or the point is_zero drew
    ret,     \* what the call returned
    eqlog    \* what a == zero(), zero() == b and a == b last returned

vars == <<a, b, op, point, ret, eqlog>>

\* A bool as eqlog keeps it.
Logged(v) == IF v THEN "true" ELSE "false"

NoRet ==
    [kind |-> "none", some |-> FALSE, val |-> 0, bool |-> FALSE,
     poly |-> VecPoly(<< >>)]

RetUsize(n) == [NoRet EXCEPT !.kind = "usize", !.val = n]

RetOption(o) == [NoRet EXCEPT !.kind = "option", !.some = o.some, !.val = o.val]

RetBool(v) == [NoRet EXCEPT !.kind = "bool", !.bool = v]

RetPoly(p) == [NoRet EXCEPT !.kind = "poly", !.poly = p]

Init ==
    /\ a \in Polys
    /\ b \in Polys
    /\ op = "idle"
    /\ point = 0
    /\ ret = NoRet
    /\ eqlog = [az |-> "none", zb |-> "none", ab |-> "none"]

Order ==
    /\ op = "idle"
    /\ op' = "order"
    /\ ret' = RetUsize(order(a))
    /\ UNCHANGED <<a, b, point, eqlog>>

Evaluate ==
    /\ op = "idle"
    /\ \E element \in Points :
          /\ point' = element
          /\ ret' = RetOption(evaluate(a, element))
    /\ op' = "evaluate"
    /\ UNCHANGED <<a, b, eqlog>>

Add ==
    /\ op = "idle"
    /\ op' = "add"
    /\ ret' = RetPoly(add(a, b))
    /\ UNCHANGED <<a, b, point, eqlog>>

Sub ==
    /\ op = "idle"
    /\ op' = "sub"
    /\ ret' = RetPoly(sub(a, b))
    /\ UNCHANGED <<a, b, point, eqlog>>

IsZero ==
    /\ op = "idle"
    /\ \E rand_point \in gen_range(min_of_range, max_of_range) :
          /\ point' = rand_point
          /\ ret' = RetBool(is_zero(a, rand_point))
    /\ op' = "is_zero"
    /\ UNCHANGED <<a, b, eqlog>>

Eq ==
    /\ op = "idle"
    /\ \E rand_point \in gen_range(min_of_range, max_of_range) :
          /\ point' = rand_point
          /\ ret' = RetBool(eq(a, b, rand_point))
          /\ eqlog' = [eqlog EXCEPT !.ab = Logged(eq(a, b, rand_point))]
    /\ op' = "eq"
    /\ UNCHANGED <<a, b>>

\* a == VecPoly::zero()
EqZeroRight ==
    /\ op = "idle"
    /\ \E rand_point \in gen_range(min_of_range, max_of_range) :
          /\ point' = rand_point
          /\ ret' = RetBool(eq(a, zero, rand_point))
          /\ eqlog' = [eqlog EXCEPT !.az = Logged(eq(a, zero, rand_point))]
    /\ op' = "eq_zero_right"
    /\ UNCHANGED <<a, b>>

\* VecPoly::zero() == b
EqZeroLeft ==
    /\ op = "idle"
    /\ \E rand_point \in gen_range(min_of_range, max_of_range) :
          /\ point' = rand_point
          /\ ret' = RetBool(eq(zero, b, rand_point))
          /\ eqlog' = [eqlog EXCEPT !.zb = Logged(eq(zero, b, rand_point))]
    /\ op' = "eq_zero_left"
    /\ UNCHANGED <<a, b>>

Zero ==
    /\ op = "idle"
    /\ op' = "zero"
    /\ ret' = RetPoly(zero)
    /\ UNCHANGED <<a, b, point, eqlog>>

\* The caller drops the returned value; the next call is independent of it.
Drop ==
    /\ op # "idle"
    /\ op' = "idle"
    /\ point' = 0
    /\ ret' = NoRet
    /\ UNCHANGED <<a, b, eqlog>>

Next ==
    \/ Order
    \/ Evaluate
    \/ Add
    \/ Sub
    \/ IsZero
    \/ Eq
    \/ EqZeroRight
    \/ EqZeroLeft
    \/ Zero
    \/ Drop

Spec == Init /\ [][Next]_vars

\* ------------------------------------------------- definitions for claims

RECURSIVE Pow(_, _)
Pow(x, n) == IF n = 0 THEN 1 ELSE x * Pow(x, n - 1)

RECURSIVE SumTo(_, _, _)
SumTo(c, x, i) ==
    IF i = 0 THEN 0 ELSE SumTo(c, x, i - 1) + c[i] * Pow(x, Len(c) - i)

\* The polynomial as a sum of monomials: c[i] is the coefficient of degree
\* Len(c) - i (1-based i), the highest degree first.
DirectSum(c, x) == SumTo(c, x, Len(c))

AllIdentity(c) == \A i \in 1..Len(c) : c[i] = 0

ShorterLen == Min(Len(a.coefficients), Len(b.coefficients))

PrefixAgree == \A i \in 1..ShorterLen : a.coefficients[i] = b.coefficients[i]

DiffPrefix == [i \in 1..ShorterLen |-> a.coefficients[i] - b.coefficients[i]]

\* C1: evaluate on a non-empty coefficient vector returns Some(v), v the value
\* of the sum of c[i] * x^(n-1-i); [1,0,1] at x = 2 gives 5.
C1_HornerIsDirectSum ==
    (op = "evaluate" /\ Len(a.coefficients) > 0) =>
        /\ ret.kind = "option"
        /\ ret.some
        /\ ret.val = DirectSum(a.coefficients, point)
        /\ (a.coefficients = <<1, 0, 1>> /\ point = 2) => ret.val = 5

C1_Witness ==
    /\ op = "evaluate"
    /\ a.coefficients = <<1, 0, 1>>
    /\ point = 2
    /\ ret.some
    /\ ret.val = 5

\* C2: evaluate returns None exactly when the coefficient vector is empty,
\* whatever the point.
C2_NoneIffEmpty ==
    op = "evaluate" => (ret.some <=> Len(a.coefficients) > 0)

C2_Witness ==
    /\ op = "evaluate"
    /\ a.coefficients = << >>
    /\ point # 0
    /\ ~ret.some

\* C3: is_zero is true of the empty polynomial and of every all-identity
\* coefficient vector, at every point the range can yield.
C3_ZeroIsZero ==
    (op = "is_zero" /\ AllIdentity(a.coefficients)) => ret.bool

C3_Witness ==
    /\ op = "is_zero"
    /\ a.coefficients = <<0, 0, 0>>
    /\ point # 0
    /\ ret.bool

\* C4: is_zero draws its point from [min_value/2, max_value/2) and answers
\* true iff there are no coefficients or the polynomial is the additive
\* identity at that point; x^2 + 1 is never reported zero.
C4_IsZeroOneSample ==
    op = "is_zero" =>
        /\ min_value <= (1 + 1) * point
        /\ (1 + 1) * point < max_value
        /\ ret.bool <=> (\/ Len(a.coefficients) = 0
                         \/ DirectSum(a.coefficients, point) = 0)
        /\ a.coefficients = <<1, 0, 1>> => ~ret.bool

C4_Witness ==
    /\ op = "is_zero"
    /\ a.coefficients = <<1, 0, 1>>
    /\ (1 + 1) * point = min_value
    /\ ~ret.bool

\* C5: a + b and a - b have length min(len a, len b) and hold a[i] + b[i],
\* a[i] - b[i] at each index below it; [1,2] + [3,4] = [4,6] and
\* [5,5] - [2,3] = [3,2].
C5_PointwiseTruncating ==
    /\ op = "add" =>
        /\ Len(ret.poly.coefficients) = ShorterLen
        /\ \A i \in 1..ShorterLen :
              ret.poly.coefficients[i] = a.coefficients[i] + b.coefficients[i]
        /\ (a.coefficients = <<1, 2>> /\ b.coefficients = <<3, 4>>) =>
              ret.poly.coefficients = <<4, 6>>
    /\ op = "sub" =>
        /\ Len(ret.poly.coefficients) = ShorterLen
        /\ \A i \in 1..ShorterLen :
              ret.poly.coefficients[i] = a.coefficients[i] - b.coefficients[i]
        /\ (a.coefficients = <<5, 5>> /\ b.coefficients = <<2, 3>>) =>
              ret.poly.coefficients = <<3, 2>>

C5_Witness ==
    /\ op = "add"
    /\ a.coefficients = <<1, 0, 1>>
    /\ b.coefficients = <<1, 2>>
    /\ ret.poly.coefficients = <<2, 2>>

C7_OrderIsSizeMinusOne ==
    (op = "order" /\ Len(a.coefficients) > 0) =>
        ret.val = Len(a.coefficients) - 1

\* C8: P == P is true for every polynomial P, at every point drawn, in every
\* call.
C8_EqReflexive ==
    (op = "eq" /\ a = b) => ret.bool

C8_Witness ==
    /\ op = "eq"
    /\ a = b
    /\ a.coefficients = <<1, 0, 1>>
    /\ ret.bool

\* C9: a == b leaves a and b as they were and answers the zero test of the
\* differences over the first min(len a, len b) indices alone, so it is true
\* whenever the operands agree there.
C9_EqIsZeroOfTruncatedSub ==
    [][op' = "eq" =>
        /\ a' = a
        /\ b' = b
        /\ ret'.bool <=> (\/ ShorterLen = 0
                          \/ DirectSum(DiffPrefix, point') = 0)
        /\ PrefixAgree => ret'.bool]_vars

C9_Witness ==
    /\ op = "eq"
    /\ a.coefficients = <<1, 0, 1>>
    /\ b.coefficients = <<1>>
    /\ ret.bool

\* C10: a polynomial compared with zero() is equal to it at every point
\* drawn, on either side; [1] == [2] is false at every point, although
\* [1] == zero() and zero() == [2] are true: == is not transitive.
C10_ZeroEqualsAll ==
    /\ op \in {"eq_zero_right", "eq_zero_left"} => ret.bool
    /\ (op = "eq" /\ (a = zero \/ b = zero)) => ret.bool
    /\ eqlog.az # "false"
    /\ eqlog.zb # "false"
    /\ (a.coefficients = <<1>> /\ b.coefficients = <<2>>) => eqlog.ab # "true"

C10_Witness ==
    /\ a.coefficients = <<1>>
    /\ b.coefficients = <<2>>
    /\ eqlog = [az |-> "true", zb |-> "true", ab |-> "false"]

=============================================================================
